---- MODULE Spec2Model ----
(***************************************************************************)
(* FormSubmitComponent (src/src/App.js): a three-field form validated by   *)
(* a zod schema through react-hook-form's resolver, submitted to an        *)
(* injected async onSubmit, with a status flag, a dirty-field counter and  *)
(* a list of validation errors reported by a rejected submission.          *)
(*                                                                         *)
(* Text is modelled as a tuple of one-character strings, so that length,   *)
(* parseInt and the email syntax are computed character by character.      *)
(***************************************************************************)
EXTENDS Integers, Sequences, FiniteSets, TLC

VARIABLES
    values,            \* react-hook-form field values, by field name
    dirtyFields,       \* formState.dirtyFields: the set of its keys
    errors,            \* formState.errors: <<[field, message]>> in key order
    isSubmitted,       \* formState.isSubmitted (turns on re-validation on change)
    status,            \* useState(''): "", "submitting", "success", "error"
    openSnackbar,      \* useState(false)
    openDialog,        \* useState(false)
    changesCount,      \* zustand store
    validationErrors,  \* zustand store: a JS value (array or undefined)
    validating,        \* submit events whose resolver has not completed: raw values, oldest first
    awaiting,          \* number of onSubmit promises that have not settled
    onSubmitArg,       \* the argument of the latest onSubmit call
    mounted,           \* FALSE once a render has thrown (React unmounts the tree)
    last               \* the latest step taken: [op, payload]

vars == <<values, dirtyFields, errors, isSubmitted, status, openSnackbar, openDialog,
          changesCount, validationErrors, validating, awaiting, onSubmitArg, mounted, last>>

(***************************************************************************)
(* Bounds                                                                  *)
(***************************************************************************)
\* submit attempts that may be pending (validating or awaiting onSubmit) at once
MaxPending == 2

(***************************************************************************)
(* Text                                                                    *)
(***************************************************************************)
Digits == {"0", "1", "2", "3", "4", "5", "6", "7", "8", "9"}
Letters == {"a", "b", "c", "d", "o", "m", "x", "A"}
Whitespace == {" "}

DigitVal(c) ==
    CASE c = "0" -> 0 [] c = "1" -> 1 [] c = "2" -> 2 [] c = "3" -> 3 [] c = "4" -> 4
      [] c = "5" -> 5 [] c = "6" -> 6 [] c = "7" -> 7 [] c = "8" -> 8 [] c = "9" -> 9

Fields == <<"fieldName", "email", "age">>
FieldSet == {"fieldName", "email", "age"}

\* defaultValue="" of the three Controllers
DefaultValues == [f \in FieldSet |-> <<>>]

\* what the user may type into each field
FieldNameInputs == {<<>>, <<"A">>}
EmailInputs == {<<>>, <<"b", "a", "d">>, <<"a", "@", "b", ".", "c", "o">>}
AgeInputs == {<<>>, <<"x">>, <<"1", "7">>, <<"1", "8", "x">>, <<"-", "5">>}
InputsOf(f) ==
    CASE f = "fieldName" -> FieldNameInputs
      [] f = "email" -> EmailInputs
      [] f = "age" -> AgeInputs

(***************************************************************************)
(* The zod schema (App.js:12-16)                                           *)
(***************************************************************************)
\* a JS number: NaN or an integer
NaN == [nan |-> TRUE, val |-> 0]
Num(n) == [nan |-> FALSE, val |-> n]

RECURSIVE SkipWhitespace(_)
SkipWhitespace(s) ==
    IF s # <<>> /\ Head(s) \in Whitespace THEN SkipWhitespace(Tail(s)) ELSE s

RECURSIVE LeadingDigits(_)
LeadingDigits(s) ==
    IF s # <<>> /\ Head(s) \in Digits
    THEN <<Head(s)>> \o LeadingDigits(Tail(s))
    ELSE <<>>

RECURSIVE DigitsValue(_, _)
DigitsValue(ds, acc) ==
    IF ds = <<>> THEN acc ELSE DigitsValue(Tail(ds), acc * 10 + DigitVal(Head(ds)))

\* parseInt(val, 10): leading whitespace, an optional sign, then the longest
\* run of decimal digits; NaN when that run is empty
ParseInt(s) ==
    LET t == SkipWhitespace(s)
        neg == t # <<>> /\ Head(t) = "-"
        u == IF t # <<>> /\ Head(t) \in {"+", "-"} THEN Tail(t) ELSE t
        ds == LeadingDigits(u)
    IN  IF ds = <<>> THEN NaN
        ELSE Num(IF neg THEN 0 - DigitsValue(ds, 0) ELSE DigitsValue(ds, 0))

\* Number(val) in place of parseInt(val, 10): the whole text must be numeric
agePreprocessNumber(val) ==
    IF Len(LeadingDigits(val)) = Len(val) THEN ParseInt(<<"0">> \o val) ELSE NaN

\* parseInt(val, 10) || 18: a default in place of NaN
agePreprocessDefault(val) ==
    IF ParseInt(val).nan THEN Num(18) ELSE ParseInt(val)

\* the preprocess step of schema.age
agePreprocess(val) == ParseInt(val)

AlphaNum == Letters \cup Digits

\* z.string().email(): one "@"; a local part of [A-Z0-9_'+-.] that does not
\* start with ".", ends in [A-Z0-9_+-] and has no ".."; a domain of labels
\* [A-Z0-9][A-Z0-9-]* each followed by ".", then a top-level label of at least
\* two letters
IsEmail(s) ==
    LET ats == {i \in 1..Len(s) : s[i] = "@"}
    IN  /\ Cardinality(ats) = 1
        /\ LET at == CHOOSE i \in ats : TRUE
               local == SubSeq(s, 1, at - 1)
               domain == SubSeq(s, at + 1, Len(s))
               dots == {i \in 1..Len(domain) : domain[i] = "."}
           IN  /\ Len(local) >= 1
               /\ \A i \in 1..Len(local) : local[i] \in AlphaNum \cup {"_", "'", "+", "-", "."}
               /\ local[1] # "."
               /\ local[Len(local)] \in AlphaNum \cup {"_", "+", "-"}
               /\ \A i \in 1..(Len(s) - 1) : ~(s[i] = "." /\ s[i + 1] = ".")
               /\ \A i \in 1..Len(domain) : domain[i] \in AlphaNum \cup {"-", "."}
               /\ dots # {}
               /\ domain[1] \in AlphaNum
               /\ LET lastDot == CHOOSE i \in dots : \A j \in dots : j <= i
                  IN  /\ \A i \in dots : i < lastDot => domain[i + 1] \in AlphaNum
                      /\ Len(domain) - lastDot >= 2
                      /\ \A i \in (lastDot + 1)..Len(domain) : domain[i] \in Letters

MinAge == 18

Issue(path, message) == [path |-> path, message |-> message]

\* fieldName: z.string().min(1, ...)
fieldNameIssues(val) ==
    IF Len(val) < 1 THEN <<Issue("fieldName", "Field Name is required")>> ELSE <<>>

\* email: z.string().email(...).min(1, ...): every check of a string runs
emailIssues(val) ==
    (IF ~IsEmail(val) THEN <<Issue("email", "Invalid email address")>> ELSE <<>>)
    \o (IF Len(val) < 1 THEN <<Issue("email", "Email is required")>> ELSE <<>>)

\* z.number(): NaN is not of type number, and the checks are then not run
numberTypeIssues(p) ==
    IF p.nan THEN <<Issue("age", "Expected number, received nan")>> ELSE <<>>

\* .int().positive(...).min(18, ...): every check of a number runs; a
\* comparison with NaN is false, and NaN is no integer
numberCheckIssues(p) ==
    (IF p.nan THEN <<Issue("age", "Expected integer, received float")>> ELSE <<>>)
    \o (IF ~p.nan /\ p.val <= 0
        THEN <<Issue("age", "Age must be a positive integer")>> ELSE <<>>)
    \o (IF ~p.nan /\ p.val < MinAge
        THEN <<Issue("age", "Age must be at least 18")>> ELSE <<>>)

\* age: z.preprocess(parseInt, z.number().int().positive(...).min(18, ...))
ageIssues(val) ==
    LET p == agePreprocess(val)
    IN  IF numberTypeIssues(p) # <<>> THEN numberTypeIssues(p) ELSE numberCheckIssues(p)

\* parsing that stops at the first key with an issue
schemaIssuesAbortEarly(raw) ==
    IF fieldNameIssues(raw.fieldName) # <<>> THEN fieldNameIssues(raw.fieldName)
    ELSE IF emailIssues(raw.email) # <<>> THEN emailIssues(raw.email)
    ELSE ageIssues(raw.age)

\* schema.parse: every key of the object is parsed, in declaration order
schemaIssues(raw) ==
    fieldNameIssues(raw.fieldName) \o emailIssues(raw.email) \o ageIssues(raw.age)

schemaData(raw) ==
    [fieldName |-> raw.fieldName, email |-> raw.email, age |-> agePreprocess(raw.age).val]

(***************************************************************************)
(* zodResolver(schema) and react-hook-form (App.js:27-29)                  *)
(***************************************************************************)
FieldError(field, message) == [field |-> field, message |-> message]

ErrorFields(errs) == {errs[i].field : i \in 1..Len(errs)}

\* the resolver keeps the first issue of each path (criteriaMode "firstError")
RECURSIVE FirstErrorPerPath(_, _)
FirstErrorPerPath(issues, acc) ==
    IF issues = <<>> THEN acc
    ELSE LET i == Head(issues)
         IN  FirstErrorPerPath(Tail(issues),
                 IF i.path \in ErrorFields(acc) THEN acc
                 ELSE Append(acc, FieldError(i.path, i.message)))

\* the resolver's result: the parsed (coerced) data, or the field errors
zodResolver(raw) ==
    LET issues == schemaIssues(raw)
    IN  IF issues = <<>>
        THEN [valid |-> TRUE, data |-> <<schemaData(raw)>>, errors |-> <<>>]
        ELSE [valid |-> FALSE, data |-> <<>>, errors |-> FirstErrorPerPath(issues, <<>>)]

SetError(errs, e) ==
    IF e.field \in ErrorFields(errs)
    THEN [i \in 1..Len(errs) |-> IF errs[i].field = e.field THEN e ELSE errs[i]]
    ELSE Append(errs, e)

UnsetError(errs, f) == SelectSeq(errs, LAMBDA e : e.field # f)

\* reValidateMode "onChange": once the form has been submitted, a change of
\* field f runs the resolver on the new values and sets or clears f's error
errorsAfterChange(f, newValues) ==
    IF ~isSubmitted THEN errors
    ELSE LET found == SelectSeq(zodResolver(newValues).errors, LAMBDA e : e.field = f)
         IN  IF found # <<>> THEN SetError(errors, found[1]) ELSE UnsetError(errors, f)

\* a field is dirty while its value differs from its default value
dirtyAfterChange(newValues) == {f \in FieldSet : newValues[f] # DefaultValues[f]}

(***************************************************************************)
(* JS values of the store and of a rejection                               *)
(***************************************************************************)
JsArray(items) == [kind |-> "array", items |-> items]
JsUndefined == [kind |-> "undefined", items |-> <<>>]

\* what the injected onSubmit may reject with: an object carrying a
\* validationErrors array (App.js:181 is the first), an object without that
\* property (an Error, say), or no reason at all
Rejections ==
    { [kind |-> "object", validationErrors |-> JsArray(<<"Field name is invalid">>)],
      [kind |-> "object", validationErrors |-> JsArray(<<>>)],
      [kind |-> "object", validationErrors |-> JsUndefined],
      [kind |-> "undefined", validationErrors |-> JsUndefined] }

NoRejection == [kind |-> "none", validationErrors |-> JsUndefined]

\* raw is the input of the attempt a step validated ("invalid", "call")
NoInput == [f \in FieldSet |-> <<>>]
Step(op) == [op |-> op, rejection |-> NoRejection, raw |-> NoInput]

(***************************************************************************)
(* The component (App.js:26-172)                                           *)
(*                                                                         *)
(* react-hook-form is modelled by its documented behaviour: mode           *)
(* "onSubmit" with reValidateMode "onChange"; dirtyFields holds the fields *)
(* whose value differs from the Controller's defaultValue; reset() puts    *)
(* the values back to the defaults and clears errors, dirtyFields and      *)
(* isSubmitted; handleSubmit(f) awaits the resolver and calls f(data) only *)
(* when it found no error.  A render that throws unmounts the component:   *)
(* no handler runs after it.                                               *)
(***************************************************************************)
\* useEffect on [dirtyFields]: after a render in which dirtyFields changed, the
\* count is set to the number of its keys; otherwise what the handler set stays
changesCountEffect(newDirty, count) ==
    IF newDirty # dirtyFields THEN Cardinality(newDirty) ELSE count

\* the resolver awaited by handleSubmit completes in the microtasks of the
\* task that dispatched the submit event: no later task (a user's input, a
\* timer, the settling of onSubmit) is handled before it; only a further
\* submit event dispatched by the same task can precede it
resolverIdle == validating = <<>>

submitDisabled == status = "submitting" \/ Len(errors) > 0
resetDisabled == status = "submitting"

\* rendering the Alert reads validationErrors.length when status is 'error'
renderThrows(st, ve) == st = "error" /\ ve.kind = "undefined"

RECURSIVE Join(_, _)
Join(items, sep) ==
    IF Len(items) <= 1 THEN items
    ELSE <<Head(items), sep>> \o Join(Tail(items), sep)

alertSeverity == IF status = "error" THEN "error" ELSE "success"
alertMessage ==
    IF status = "error"
    THEN (IF Len(validationErrors.items) > 0
          THEN Join(validationErrors.items, ", ")
          ELSE <<"Unknown error">>)
    ELSE <<"Form submitted successfully!">>

Init ==
    /\ values = DefaultValues
    /\ dirtyFields = {}
    /\ errors = <<>>
    /\ isSubmitted = FALSE
    /\ status = ""
    /\ openSnackbar = FALSE
    /\ openDialog = FALSE
    /\ changesCount = 0
    /\ validationErrors = JsArray(<<>>)
    /\ validating = <<>>
    /\ awaiting = 0
    /\ onSubmitArg = <<>>
    /\ mounted = TRUE
    /\ last = Step("init")

\* the user changes field f to v (field.onChange of its Controller)
fieldChange(f, v) ==
    /\ mounted
    /\ resolverIdle
    /\ v # values[f]
    /\ LET newValues == [values EXCEPT ![f] = v]
       IN  /\ values' = newValues
           /\ dirtyFields' = dirtyAfterChange(newValues)
           /\ errors' = errorsAfterChange(f, newValues)
           /\ changesCount' = changesCountEffect(dirtyAfterChange(newValues), changesCount)
    /\ last' = Step("change")
    /\ UNCHANGED <<isSubmitted, status, openSnackbar, openDialog, validationErrors,
                   validating, awaiting, onSubmitArg, mounted>>

\* a submit event of the form: handleSubmit(handleFormSubmit) starts and awaits
\* the resolver, which has read the field values
submitEvent ==
    /\ mounted
    /\ ~submitDisabled
    /\ Len(validating) + awaiting < MaxPending
    /\ validating' = Append(validating, values)
    /\ last' = Step("submit")
    /\ UNCHANGED <<values, dirtyFields, errors, isSubmitted, status, openSnackbar, openDialog,
                   changesCount, validationErrors, awaiting, onSubmitArg, mounted>>

\* submitInvalid calling onSubmit all the same
submitInvalidCallsOnSubmit ==
    /\ mounted
    /\ validating # <<>>
    /\ LET r == zodResolver(Head(validating))
       IN  /\ ~r.valid
           /\ errors' = r.errors
    /\ isSubmitted' = TRUE
    /\ validating' = Tail(validating)
    /\ awaiting' = awaiting + 1
    /\ onSubmitArg' = <<schemaData(Head(validating))>>
    /\ last' = [Step("invalid") EXCEPT !.raw = Head(validating)]
    /\ UNCHANGED <<values, dirtyFields, status, openSnackbar, openDialog, changesCount,
                   validationErrors, mounted>>

\* submitInvalid setting the status to 'error'
submitInvalidSetsError ==
    /\ mounted
    /\ validating # <<>>
    /\ LET r == zodResolver(Head(validating))
       IN  /\ ~r.valid
           /\ errors' = r.errors
    /\ isSubmitted' = TRUE
    /\ validating' = Tail(validating)
    /\ status' = "error"
    /\ last' = [Step("invalid") EXCEPT !.raw = Head(validating)]
    /\ UNCHANGED <<values, dirtyFields, openSnackbar, openDialog, changesCount,
                   validationErrors, awaiting, onSubmitArg, mounted>>

\* the resolver of the oldest submit event found errors: handleFormSubmit is
\* not called
submitInvalid ==
    /\ mounted
    /\ validating # <<>>
    /\ LET r == zodResolver(Head(validating))
       IN  /\ ~r.valid
           /\ errors' = r.errors
    /\ isSubmitted' = TRUE
    /\ validating' = Tail(validating)
    /\ last' = [Step("invalid") EXCEPT !.raw = Head(validating)]
    /\ UNCHANGED <<values, dirtyFields, status, openSnackbar, openDialog, changesCount,
                   validationErrors, awaiting, onSubmitArg, mounted>>

\* handleFormSubmit with setValidationErrors([]) next to setStatus('submitting')
handleFormSubmitClearsList ==
    /\ mounted
    /\ validating # <<>>
    /\ LET r == zodResolver(Head(validating))
       IN  /\ r.valid
           /\ onSubmitArg' = r.data
    /\ errors' = <<>>
    /\ status' = "submitting"
    /\ validationErrors' = JsArray(<<>>)
    /\ awaiting' = awaiting + 1
    /\ validating' = Tail(validating)
    /\ last' = [Step("call") EXCEPT !.raw = Head(validating)]
    /\ UNCHANGED <<values, dirtyFields, isSubmitted, openSnackbar, openDialog, changesCount,
                   mounted>>

\* the resolver found no error: handleFormSubmit(data) runs up to its await
handleFormSubmit ==
    /\ mounted
    /\ validating # <<>>
    /\ LET r == zodResolver(Head(validating))
       IN  /\ r.valid
           /\ onSubmitArg' = r.data
    /\ errors' = <<>>
    /\ status' = "submitting"
    /\ awaiting' = awaiting + 1
    /\ validating' = Tail(validating)
    /\ last' = [Step("call") EXCEPT !.raw = Head(validating)]
    /\ UNCHANGED <<values, dirtyFields, isSubmitted, openSnackbar, openDialog, changesCount,
                   validationErrors, mounted>>

\* submitResolves without setValidationErrors([])
submitResolvesKeepsErrors ==
    /\ mounted
    /\ resolverIdle
    /\ awaiting > 0
    /\ awaiting' = awaiting - 1
    /\ status' = "success"
    /\ changesCount' = changesCountEffect(dirtyFields, 0)
    /\ openSnackbar' = TRUE
    /\ isSubmitted' = TRUE
    /\ last' = Step("resolve")
    /\ UNCHANGED <<values, dirtyFields, errors, openDialog, validating, onSubmitArg, mounted,
                   validationErrors>>

\* an onSubmit promise resolves: the rest of the try block
submitResolves ==
    /\ mounted
    /\ resolverIdle
    /\ awaiting > 0
    /\ awaiting' = awaiting - 1
    /\ status' = "success"
    /\ changesCount' = changesCountEffect(dirtyFields, 0)
    /\ validationErrors' = JsArray(<<>>)
    /\ openSnackbar' = TRUE
    /\ isSubmitted' = TRUE
    /\ last' = Step("resolve")
    /\ UNCHANGED <<values, dirtyFields, errors, openDialog, validating, onSubmitArg, mounted>>

\* an onSubmit promise rejects with rej: the catch block, then the render
submitRejects(rej) ==
    /\ mounted
    /\ resolverIdle
    /\ awaiting > 0
    /\ awaiting' = awaiting - 1
    /\ status' = "error"
    /\ IF rej.kind = "undefined"
       THEN UNCHANGED <<validationErrors, openSnackbar>>
       ELSE /\ validationErrors' = rej.validationErrors
            /\ openSnackbar' = TRUE
    /\ mounted' = ~renderThrows("error", validationErrors')
    /\ isSubmitted' = TRUE
    /\ last' = [Step("reject") EXCEPT !.rejection = rej]
    /\ UNCHANGED <<values, dirtyFields, errors, openDialog, changesCount, validating,
                   onSubmitArg>>

\* handleReset without the call of reset()
handleResetWithoutFormReset ==
    /\ mounted
    /\ resolverIdle
    /\ ~resetDisabled
    /\ changesCount' = changesCountEffect(dirtyFields, 0)
    /\ validationErrors' = JsArray(<<>>)
    /\ last' = Step("reset")
    /\ UNCHANGED <<values, dirtyFields, errors, isSubmitted, status, openSnackbar, openDialog,
                   validating, awaiting, onSubmitArg, mounted>>

\* handleReset putting back one dirty field only (resetField in place of reset)
handleResetFirstDirtyField ==
    /\ mounted
    /\ resolverIdle
    /\ ~resetDisabled
    /\ LET dirty == SelectSeq(Fields, LAMBDA f : f \in dirtyFields)
           newValues == IF dirty = <<>> THEN values
                        ELSE [values EXCEPT ![dirty[1]] = DefaultValues[dirty[1]]]
       IN  /\ values' = newValues
           /\ dirtyFields' = dirtyAfterChange(newValues)
           /\ changesCount' = changesCountEffect(dirtyAfterChange(newValues), 0)
    /\ errors' = <<>>
    /\ isSubmitted' = FALSE
    /\ validationErrors' = JsArray(<<>>)
    /\ last' = Step("reset")
    /\ UNCHANGED <<status, openSnackbar, openDialog, validating, awaiting, onSubmitArg,
                   mounted>>

\* a Reset button that is never disabled, with a handleReset that also clears
\* the status
handleResetCancels ==
    /\ mounted
    /\ resolverIdle
    /\ values' = DefaultValues
    /\ dirtyFields' = {}
    /\ errors' = <<>>
    /\ isSubmitted' = FALSE
    /\ changesCount' = changesCountEffect({}, 0)
    /\ validationErrors' = JsArray(<<>>)
    /\ status' = ""
    /\ last' = Step("reset")
    /\ UNCHANGED <<openSnackbar, openDialog, validating, awaiting, onSubmitArg, mounted>>

\* the Reset button
handleReset ==
    /\ mounted
    /\ resolverIdle
    /\ ~resetDisabled
    /\ values' = DefaultValues
    /\ dirtyFields' = {}
    /\ errors' = <<>>
    /\ isSubmitted' = FALSE
    /\ changesCount' = changesCountEffect({}, 0)
    /\ validationErrors' = JsArray(<<>>)
    /\ last' = Step("reset")
    /\ UNCHANGED <<status, openSnackbar, openDialog, validating, awaiting, onSubmitArg,
                   mounted>>

handleCloseSnackbar ==
    /\ mounted
    /\ resolverIdle
    /\ openSnackbar
    /\ openSnackbar' = FALSE
    /\ last' = Step("closeSnackbar")
    /\ UNCHANGED <<values, dirtyFields, errors, isSubmitted, status, openDialog, changesCount,
                   validationErrors, validating, awaiting, onSubmitArg, mounted>>

\* the button showing the number of field errors
handleOpenDialog ==
    /\ mounted
    /\ resolverIdle
    /\ Len(errors) > 0
    /\ ~openDialog
    /\ openDialog' = TRUE
    /\ last' = Step("openDialog")
    /\ UNCHANGED <<values, dirtyFields, errors, isSubmitted, status, openSnackbar, changesCount,
                   validationErrors, validating, awaiting, onSubmitArg, mounted>>

handleCloseDialog ==
    /\ mounted
    /\ resolverIdle
    /\ openDialog
    /\ openDialog' = FALSE
    /\ last' = Step("closeDialog")
    /\ UNCHANGED <<values, dirtyFields, errors, isSubmitted, status, openSnackbar, changesCount,
                   validationErrors, validating, awaiting, onSubmitArg, mounted>>

Next ==
    \/ \E f \in FieldSet : \E v \in InputsOf(f) : fieldChange(f, v)
    \/ submitEvent
    \/ submitInvalid
    \/ handleFormSubmit
    \/ submitResolves
    \/ \E rej \in Rejections : submitRejects(rej)
    \/ handleReset
    \/ handleCloseSnackbar
    \/ handleOpenDialog
    \/ handleCloseDialog

Spec == Init /\ [][Next]_vars

(***************************************************************************)
(* Reference notions used by the properties, computed independently of    *)
(* the schema                                                              *)
(***************************************************************************)
\* the largest age the reference notions enumerate
MaxAge == 20

DigitChar(d) ==
    CASE d = 0 -> "0" [] d = 1 -> "1" [] d = 2 -> "2" [] d = 3 -> "3" [] d = 4 -> "4"
      [] d = 5 -> "5" [] d = 6 -> "6" [] d = 7 -> "7" [] d = 8 -> "8" [] d = 9 -> "9"

\* the decimal numeral of n, 0 <= n <= 99
Numeral(n) ==
    IF n < 10 THEN <<DigitChar(n)>> ELSE <<DigitChar(n \div 10), DigitChar(n % 10)>>

\* text s starts with the numeral of n, and the numeral ends there
LeadsWith(s, n) ==
    LET d == Numeral(n)
    IN  /\ Len(s) >= Len(d)
        /\ SubSeq(s, 1, Len(d)) = d
        /\ Len(s) > Len(d) => s[Len(d) + 1] \notin Digits

AdultAges == MinAge..MaxAge
IsAdultAge(s) == \E n \in AdultAges : LeadsWith(s, n)
AdultAgeOf(s) == CHOOSE n \in AdultAges : LeadsWith(s, n)

HasNoDigit(s) == \A i \in 1..Len(s) : s[i] \notin Digits

\* the field fails its constraints
Fails(f, raw) ==
    CASE f = "fieldName" -> Len(raw.fieldName) = 0
      [] f = "email" -> ~IsEmail(raw.email)
      [] f = "age" -> ~IsAdultAge(raw.age)

FailingFields(raw) == SelectSeq(Fields, LAMBDA f : Fails(f, raw))

FieldsOf(errs) == [i \in 1..Len(errs) |-> errs[i].field]
MessagesOf(errs) == [i \in 1..Len(errs) |-> errs[i].message]

Validated == last.op \in {"invalid", "call"}

(***************************************************************************)
(* Properties                                                              *)
(***************************************************************************)

\* C1: onSubmit is called only by the step that follows a validation of the
\* same attempt that found no issue: a step that puts a call in flight or
\* hands onSubmit an argument is a "call" step whose raw input has no issue,
\* and a step whose validation failed leaves both alone.
C1_CallOnlyAfterValid ==
    [][(awaiting' > awaiting \/ onSubmitArg' # onSubmitArg \/ last'.op = "call")
        => (last'.op = "call" /\ schemaIssues(last'.raw) = <<>>)]_vars

C1_Witness ==
    /\ last.op = "invalid"
    /\ schemaIssues(last.raw) # <<>>
    /\ awaiting = 0
    /\ onSubmitArg = <<>>

C3_ResolveClears ==
    last.op = "resolve"
        => /\ status = "success"
           /\ validationErrors = JsArray(<<>>)
           /\ changesCount = 0

C3_Witness ==
    /\ last.op = "resolve"
    /\ status = "success"
    /\ Cardinality(dirtyFields) = 3
    /\ changesCount = 0
    /\ awaiting = 0

\* C4: after onSubmit rejects, the status is 'error', the component is still
\* rendered, and the error list shown is the list the rejection carried, or
\* the single message "Unknown error" when it carried none (property absent
\* or empty).
C4_RejectSetsErrorList ==
    last.op = "reject"
        => /\ status = "error"
           /\ mounted
           /\ validationErrors.kind = "array"
           /\ LET carried == last.rejection.validationErrors.items
              IN  alertMessage = IF carried # <<>> THEN Join(carried, ", ")
                                 ELSE <<"Unknown error">>
           /\ (last.rejection.validationErrors.items # <<>>
                 => validationErrors = last.rejection.validationErrors)

C6_SingleInFlight == awaiting <= 1

\* C7: an input with a non-empty fieldName, an email the schema accepts and an
\* age text leading with an integer n >= 18 is valid, and onSubmit is handed
\* fieldName and email unchanged and age as the integer n.
C7_ValidCoerced ==
    (/\ Validated
     /\ Len(last.raw.fieldName) > 0
     /\ IsEmail(last.raw.email)
     /\ IsAdultAge(last.raw.age))
        => /\ last.op = "call"
           /\ onSubmitArg = <<[fieldName |-> last.raw.fieldName,
                               email |-> last.raw.email,
                               age |-> AdultAgeOf(last.raw.age)]>>

C7_Witness ==
    /\ last.op = "call"
    /\ last.raw.age = <<"1", "8", "x">>
    /\ onSubmitArg # <<>>
    /\ onSubmitArg[1].age = 18

\* C8: a failed validation reports exactly one error for each failing field
\* and none for a passing field, in the order fieldName, email, age (three
\* entries when all three fail).
C8_NoShortCircuit ==
    last.op = "invalid" => FieldsOf(errors) = FailingFields(last.raw)

C8_Witness ==
    /\ last.op = "invalid"
    /\ FieldsOf(errors) = Fields

\* C9: an input whose age text holds no digit is invalid with an error for
\* age, whatever fieldName and email are, and the component is still rendered.
C9_NonNumericAge ==
    (Validated /\ HasNoDigit(last.raw.age))
        => /\ last.op = "invalid"
           /\ "age" \in ErrorFields(errors)
           /\ mounted

C9_Witness ==
    /\ last.op = "invalid"
    /\ last.raw.age = <<"x">>
    /\ Len(last.raw.fieldName) > 0
    /\ IsEmail(last.raw.email)
    /\ FieldsOf(errors) = <<"age">>

\* C10: a failed validation and a rejected submission both leave the three
\* field values as they were, and a new submit attempt can be made right
\* after: the component is rendered and the Submit button is enabled.
C10_ErrorKeepsFieldsAndAllowsRetry ==
    [][last'.op \in {"invalid", "reject"}
        => /\ values' = values
           /\ mounted'
           /\ ~submitDisabled']_vars

\* what a reset leaves behind in the form and the store
AfterReset ==
    /\ values = DefaultValues
    /\ dirtyFields = {}
    /\ errors = <<>>
    /\ ~isSubmitted
    /\ changesCount = 0
    /\ validationErrors = JsArray(<<>>)

C12_SubmittingHasNoErrors ==
    status = "submitting" => validationErrors = JsArray(<<>>)

\* C12 (amended): the step into 'submitting' leaves validationErrors as the
\* previous attempt left it (it is cleared when the submission resolves and
\* replaced when it rejects); what is empty after that step is the field errors.
C12_CallKeepsErrorList ==
    [][last'.op = "call"
        => /\ status' = "submitting"
           /\ errors' = <<>>
           /\ validationErrors' = validationErrors]_vars

C12_Witness ==
    /\ last.op = "call"
    /\ status = "submitting"
    /\ validationErrors = JsArray(<<"Field name is invalid">>)
    /\ errors = <<>>

\* C13: in every state changesCount is in 0..3 and equals the number of fields
\* whose value differs from its initial empty value.
C13_DirtyCountMatchesFields ==
    /\ changesCount \in 0..Len(Fields)
    /\ changesCount = Cardinality({f \in FieldSet : values[f] # DefaultValues[f]})

\* C14: a step that takes the status out of 'submitting' is the resolving or
\* the rejecting of an onSubmit promise; a reset, a submit event, a validation
\* and a field change leave the status 'submitting'.
C14_OnlySettlingLeavesSubmitting ==
    [][(status = "submitting" /\ status' # "submitting")
        => last'.op \in {"resolve", "reject"}]_vars

\* a field was changed while the submission was in flight
C14_Witness ==
    /\ status = "submitting"
    /\ last.op = "change"
    /\ awaiting > 0

\* the message reported for field f, or <<>> when f has no error
MessageFor(f) == MessagesOf(SelectSeq(errors, LAMBDA e : e.field = f))

\* C15: after a failed validation, an empty email is reported with the
\* 'required' message only, and the 'invalid' message is reported only for
\* a non-empty email that is no email address.
C15_EmptyEmailIsRequired ==
    last.op = "invalid"
        => /\ (Len(last.raw.email) = 0 => MessageFor("email") = <<"Email is required">>)
           /\ (MessageFor("email") = <<"Invalid email address">>
                 => (Len(last.raw.email) > 0 /\ ~IsEmail(last.raw.email)))

\* C16: after a failed validation, an age text that parses to no integer is
\* reported as 'Age must be a positive integer', and one that parses to an
\* integer below 18 as 'Age must be at least 18'.
C16_AgeMessages ==
    last.op = "invalid"
        => /\ (HasNoDigit(last.raw.age)
                 => MessageFor("age") = <<"Age must be a positive integer">>)
           /\ ((~ParseInt(last.raw.age).nan /\ ParseInt(last.raw.age).val < MinAge)
                 => MessageFor("age") = <<"Age must be at least 18">>)

\* C17: while the snackbar is open, it shows the success message with the
\* success severity only if the status is 'success'.
C17_SuccessAlertOnlyOnSuccess ==
    (openSnackbar /\ mounted
       /\ (alertMessage = <<"Form submitted successfully!">> \/ alertSeverity = "success"))
        => status = "success"

====
